---- MODULE Spec2Model ----
(***************************************************************************)
(* Habitat Layout Creator: the module catalog, the placement validator,   *)
(* the resource aggregator (scripts/modules.js, class HabitatModules), the *)
(* design canvas (class HabitatDesigner) and the application shell (class  *)
(* HabitatApp, class ResourceCalculator).                                  *)
(*                                                                         *)
(* JavaScript values are modelled as follows.  null is the record NULL.    *)
(* An object is a record holding exactly the fields the object has, so a   *)
(* read of a missing field (undefined) is a test on DOMAIN; a read through *)
(* undefined or null is a TypeError, modelled as the result THROWN (in a   *)
(* pure function) or as the handler stopping at that statement.            *)
(* undefined + n is NaN and every comparison with NaN is false.            *)
(***************************************************************************)
EXTENDS Integers, Sequences, FiniteSets, TLC

----------------------------------------------------------------------------
(* JavaScript values *)

NULL == [null |-> TRUE]

HasField(o, f) == f \in DOMAIN o

Max(a, b) == IF a >= b THEN a ELSE b

----------------------------------------------------------------------------
(* Numbers.  Every number of the program is an IEEE 754 double.  The       *)
(* integers it computes with are exact and are modelled as integers.  The  *)
(* areas are decimal fractions (16.8, 6.4), which a double only            *)
(* approximates, and a sum of them is rounded at every addition.  A double *)
(* near t tenths is the record [t, d] that stands for the number           *)
(*    (t * K + d) * 2^-50,  where K = (2^50 - 4) / 10,                     *)
(* so that d = 0.4 * t is t / 10 exactly: the literal 6.4 is the double    *)
(* [64, 26], that is 0.4 * 2^-50 above 6.4.  Every double in [4, 2^53) is  *)
(* a whole multiple of 2^-50, and K leaves the remainder 102 modulo 128.   *)

Double(t, d) == [t |-> t, d |-> d]

DoubleZero == Double(0, 0)

(* the doubles in [4 * 2^j, 8 * 2^j) are spaced 2^j apart (in units 2^-50): *)
(* the least j from j0 on such that the number [t, d] is below 8 * 2^j      *)
RECURSIVE Spacing(_, _, _)
Spacing(t, d, j) ==
  IF t > 80 * 2^j \/ (t = 80 * 2^j /\ d >= 32 * 2^j)
  THEN Spacing(t, d, j + 1)
  ELSE j

(* a + b: the exact sum rounded to the nearest double, ties to even *)
DoubleAdd(a, b) ==
  IF a = DoubleZero THEN b
  ELSE IF b = DoubleZero THEN a
  ELSE LET t == a.t + b.t
           d == a.d + b.d
           g == 2^Spacing(t, d, 0)
           low == (t * 102 + d) % (2 * g)
           r == low % g
           up == 2 * r > g \/ (2 * r = g /\ low >= g)
       IN IF r = 0 THEN Double(t, d)
          ELSE Double(t, d - r + (IF up THEN g ELSE 0))

----------------------------------------------------------------------------
(* scripts/modules.js: the catalog.  area is the double of the literal:    *)
(* 16.8 is Double(168, 68).                                                *)

moduleTypes ==
  [t \in {"living-quarters", "laboratory", "greenhouse", "workshop",
          "recreation", "airlock", "power", "storage"} |->
    CASE t = "living-quarters" ->
           [dimensions |-> [width |-> 120, height |-> 100],
            powerConsumption |-> 15, oxygenProduction |-> 0,
            oxygenConsumption |-> 5, crewCapacity |-> 4, area |-> Double(120, 48)]
      [] t = "laboratory" ->
           [dimensions |-> [width |-> 140, height |-> 120],
            powerConsumption |-> 25, oxygenProduction |-> 0,
            oxygenConsumption |-> 3, crewCapacity |-> 2, area |-> Double(168, 68)]
      [] t = "greenhouse" ->
           [dimensions |-> [width |-> 160, height |-> 140],
            powerConsumption |-> 30, oxygenProduction |-> 15,
            oxygenConsumption |-> 2, crewCapacity |-> 1, area |-> Double(224, 88)]
      [] t = "workshop" ->
           [dimensions |-> [width |-> 130, height |-> 110],
            powerConsumption |-> 20, oxygenProduction |-> 0,
            oxygenConsumption |-> 4, crewCapacity |-> 2, area |-> Double(143, 58)]
      [] t = "recreation" ->
           [dimensions |-> [width |-> 150, height |-> 130],
            powerConsumption |-> 18, oxygenProduction |-> 0,
            oxygenConsumption |-> 6, crewCapacity |-> 8, area |-> Double(195, 78)]
      [] t = "airlock" ->
           [dimensions |-> [width |-> 80, height |-> 80],
            powerConsumption |-> 10, oxygenProduction |-> 0,
            oxygenConsumption |-> 1, crewCapacity |-> 2, area |-> Double(64, 26)]
      [] t = "power" ->
           [dimensions |-> [width |-> 100, height |-> 100],
            powerConsumption |-> 0, powerGeneration |-> 50,
            oxygenProduction |-> 0, oxygenConsumption |-> 0,
            crewCapacity |-> 0, area |-> Double(100, 40)]
      [] t = "storage" ->
           [dimensions |-> [width |-> 110, height |-> 90],
            powerConsumption |-> 5, oxygenProduction |-> 0,
            oxygenConsumption |-> 0, crewCapacity |-> 0, area |-> Double(99, 40)]]

(* Property names every JavaScript object inherits from Object.prototype:  *)
(* moduleTypes[k] reads them through the prototype chain and yields a      *)
(* function, which is truthy and has none of a profile's fields.           *)
ObjectPrototypeKeys == {"constructor", "toString", "valueOf", "hasOwnProperty"}

InheritedValue(k) == [inherited |-> k]

(* this.moduleTypes[moduleId] || null *)
getModuleType(moduleId) ==
  IF moduleId \in DOMAIN moduleTypes THEN moduleTypes[moduleId]
  ELSE IF moduleId \in ObjectPrototypeKeys THEN InheritedValue(moduleId)
  ELSE NULL

(* Object.keys(this.moduleTypes) *)
getAllModuleTypes == DOMAIN moduleTypes

----------------------------------------------------------------------------
(* scripts/modules.js: the placement validator *)

(* a.pos + a.ext <= v, where a.ext may be undefined (NaN <= v is false) *)
SumLeq(a, pos, ext, v) == HasField(a, ext) /\ a[pos] + a[ext] <= v

(* modulesOverlap with the first test strict: an edge shared counts as overlap *)
modulesOverlap_StrictEdge(module1, module2) ==
  ~ (   (HasField(module1, "width") /\ module1.x + module1.width < module2.x)
     \/ SumLeq(module2, "x", "width", module1.x)
     \/ SumLeq(module1, "y", "height", module2.y)
     \/ SumLeq(module2, "y", "height", module1.y))

(* modulesOverlap without the mirrored tests (module2 left of or above module1) *)
modulesOverlap_OneSided(module1, module2) ==
  ~ (   SumLeq(module1, "x", "width", module2.x)
     \/ SumLeq(module1, "y", "height", module2.y))

modulesOverlap(module1, module2) ==
  ~ (   SumLeq(module1, "x", "width", module2.x)
     \/ SumLeq(module2, "x", "width", module1.x)
     \/ SumLeq(module1, "y", "height", module2.y)
     \/ SumLeq(module2, "y", "height", module1.y))

(* { x: o.x, y: o.y, ...dims }: spreading undefined adds no field *)
Rect(o, info) ==
  IF HasField(info, "dimensions")
  THEN [x |-> o.x, y |-> o.y,
        width |-> info.dimensions.width, height |-> info.dimensions.height]
  ELSE [x |-> o.x, y |-> o.y]

THROWN == [threw |-> "TypeError"]
VALID == [valid |-> TRUE]
Invalid(reason) == [valid |-> FALSE, reason |-> reason]

ReasonType == "Invalid module type"
ReasonBounds == "Module extends beyond habitat boundary"
ReasonOverlap == "Module overlaps with existing module"

(* the for-of loop over existingModules, from index i on *)
RECURSIVE OverlapLoop(_, _, _)
OverlapLoop(candidate, existingModules, i) ==
  IF i > Len(existingModules) THEN VALID
  ELSE LET existingModule == existingModules[i]
           info == getModuleType(existingModule.type)
       IN IF info = NULL THEN THROWN              \* null.dimensions
          ELSE IF modulesOverlap(candidate, Rect(existingModule, info))
               THEN Invalid(ReasonOverlap)
               ELSE OverlapLoop(candidate, existingModules, i + 1)

(* validateModulePlacement without the loop over the existing modules *)
validateModulePlacement_BoundsOnly(moduleType, position, existingModules, canvasSize) ==
  LET module == getModuleType(moduleType) IN
  IF module = NULL THEN Invalid(ReasonType)
  ELSE IF position.x < 0 \/ position.y < 0 THEN Invalid(ReasonBounds)
  ELSE IF ~HasField(module, "dimensions") THEN THROWN
  ELSE IF \/ position.x + module.dimensions.width > canvasSize.width
          \/ position.y + module.dimensions.height > canvasSize.height
       THEN Invalid(ReasonBounds)
       ELSE VALID

(* validateModulePlacement with the boundary test >= in place of > *)
validateModulePlacement_EdgeExclusive(moduleType, position, existingModules, canvasSize) ==
  LET module == getModuleType(moduleType) IN
  IF module = NULL THEN Invalid(ReasonType)
  ELSE IF position.x < 0 \/ position.y < 0 THEN Invalid(ReasonBounds)
  ELSE IF ~HasField(module, "dimensions") THEN THROWN
  ELSE IF \/ position.x + module.dimensions.width >= canvasSize.width
          \/ position.y + module.dimensions.height >= canvasSize.height
       THEN Invalid(ReasonBounds)
       ELSE OverlapLoop(Rect(position, module), existingModules, 1)

validateModulePlacement(moduleType, position, existingModules, canvasSize) ==
  LET module == getModuleType(moduleType) IN
  IF module = NULL THEN Invalid(ReasonType)
  ELSE IF position.x < 0 \/ position.y < 0 THEN Invalid(ReasonBounds)
  ELSE IF ~HasField(module, "dimensions") THEN THROWN  \* undefined.width
  ELSE IF \/ position.x + module.dimensions.width > canvasSize.width
          \/ position.y + module.dimensions.height > canvasSize.height
       THEN Invalid(ReasonBounds)
       ELSE OverlapLoop(Rect(position, module), existingModules, 1)

----------------------------------------------------------------------------
(* scripts/modules.js: the resource aggregator *)

(* profile.f || 0 *)
OrZero(info, f) == IF HasField(info, f) THEN info[f] ELSE 0

RECURSIVE SumField(_, _, _)
SumField(mods, f, i) ==
  IF i > Len(mods) THEN 0
  ELSE LET moduleType == getModuleType(mods[i].type) IN
       (IF moduleType # NULL THEN OrZero(moduleType, f) ELSE 0)
         + SumField(mods, f, i + 1)

(* moduleType.area || 0 *)
AreaOrZero(info) == IF HasField(info, "area") THEN info.area ELSE DoubleZero

(* totalArea += moduleType.area || 0, from module i on *)
RECURSIVE SumArea(_, _, _)
SumArea(mods, i, totalArea) ==
  IF i > Len(mods) THEN totalArea
  ELSE LET moduleType == getModuleType(mods[i].type) IN
       SumArea(mods, i + 1,
               IF moduleType # NULL
               THEN DoubleAdd(totalArea, AreaOrZero(moduleType))
               ELSE totalArea)

(* calculateTotalResources with the power balance taken the other way round *)
calculateTotalResources_BalanceSwapped(mods) ==
  LET totalPowerConsumption == SumField(mods, "powerConsumption", 1)
      totalPowerGeneration == SumField(mods, "powerGeneration", 1)
      totalOxygenProduction == SumField(mods, "oxygenProduction", 1)
      totalOxygenConsumption == SumField(mods, "oxygenConsumption", 1)
      totalCrewCapacity == SumField(mods, "crewCapacity", 1)
      totalArea == SumArea(mods, 1, DoubleZero)
  IN [powerBalance |-> totalPowerConsumption - totalPowerGeneration,
      oxygenBalance |-> totalOxygenProduction - totalOxygenConsumption,
      crewCapacity |-> totalCrewCapacity,
      totalArea |-> totalArea,
      modules |-> Len(mods),
      powerConsumption |-> totalPowerConsumption,
      powerGeneration |-> totalPowerGeneration,
      oxygenProduction |-> totalOxygenProduction,
      oxygenConsumption |-> totalOxygenConsumption]

calculateTotalResources(mods) ==
  LET totalPowerConsumption == SumField(mods, "powerConsumption", 1)
      totalPowerGeneration == SumField(mods, "powerGeneration", 1)
      totalOxygenProduction == SumField(mods, "oxygenProduction", 1)
      totalOxygenConsumption == SumField(mods, "oxygenConsumption", 1)
      totalCrewCapacity == SumField(mods, "crewCapacity", 1)
      totalArea == SumArea(mods, 1, DoubleZero)
  IN [powerBalance |-> totalPowerGeneration - totalPowerConsumption,
      oxygenBalance |-> totalOxygenProduction - totalOxygenConsumption,
      crewCapacity |-> totalCrewCapacity,
      totalArea |-> totalArea,
      modules |-> Len(mods),
      powerConsumption |-> totalPowerConsumption,
      powerGeneration |-> totalPowerGeneration,
      oxygenProduction |-> totalOxygenProduction,
      oxygenConsumption |-> totalOxygenConsumption]

(* ResourceCalculator.updateResources: the snapshot handed to the displays, *)
(* the aggregate plus moduleTypes = modules.map(m => m.type)                *)
Snapshot(mods) ==
  calculateTotalResources(mods)
    @@ [moduleTypes |-> [i \in 1..Len(mods) |-> mods[i].type]]

(* an alert: its type, the fixed text of its message (named by its first   *)
(* words) and the number the message interpolates                          *)
Alert(type, message) == [type |-> type, message |-> message]
AlertOf(type, message, value) == [type |-> type, message |-> message, value |-> value]

Abs(n) == IF n < 0 THEN -n ELSE n

(* array.includes(v) *)
Includes(seq, v) == \E i \in 1..Len(seq) : seq[i] = v

(* getSafetyAlerts with the reserve test of power not under the else of    *)
(* the deficit test                                                        *)
getSafetyAlerts_ReserveWithDeficit(resources) ==
  LET power ==
        (IF resources.powerBalance < 0
         THEN <<AlertOf("danger", "Power deficit", Abs(resources.powerBalance))>>
         ELSE <<>>)
        \o (IF resources.powerBalance < 10
            THEN <<AlertOf("warning", "Low power reserve", resources.powerBalance)>>
            ELSE <<>>)
      oxygen ==
        IF resources.oxygenBalance < 0
        THEN <<AlertOf("danger", "Oxygen deficit", Abs(resources.oxygenBalance))>>
        ELSE IF resources.oxygenBalance < 5
             THEN <<AlertOf("warning", "Low oxygen reserve", resources.oxygenBalance)>>
             ELSE <<>>
      crew ==
        IF resources.crewCapacity = 0
        THEN <<Alert("warning", "No living quarters")>>
        ELSE IF resources.crewCapacity < 4
             THEN <<AlertOf("warning", "Limited crew capacity", resources.crewCapacity)>>
             ELSE <<>>
      presentTypes == IF HasField(resources, "moduleTypes")
                      THEN resources.moduleTypes ELSE <<>>
      airlock == IF ~Includes(presentTypes, "airlock")
                 THEN <<Alert("warning", "No airlock detected")>> ELSE <<>>
      generator == IF ~Includes(presentTypes, "power")
                   THEN <<Alert("danger", "No power modules")>> ELSE <<>>
      alerts == power \o oxygen \o crew \o airlock \o generator
  IN IF Len(alerts) = 0 THEN <<Alert("safe", "All systems nominal")>> ELSE alerts

(* getSafetyAlerts pushing the nominal entry whatever the list holds *)
getSafetyAlerts_NominalAppended(resources) ==
  LET alerts == getSafetyAlerts_ReserveWithDeficit(resources)
  IN IF alerts[Len(alerts)].type = "safe" THEN alerts
     ELSE Append(alerts, Alert("safe", "All systems nominal"))

(* getSafetyAlerts(resources): the alerts in the order they are pushed *)
getSafetyAlerts(resources) ==
  LET power ==
        IF resources.powerBalance < 0
        THEN <<AlertOf("danger", "Power deficit", Abs(resources.powerBalance))>>
        ELSE IF resources.powerBalance < 10
             THEN <<AlertOf("warning", "Low power reserve", resources.powerBalance)>>
             ELSE <<>>
      oxygen ==
        IF resources.oxygenBalance < 0
        THEN <<AlertOf("danger", "Oxygen deficit", Abs(resources.oxygenBalance))>>
        ELSE IF resources.oxygenBalance < 5
             THEN <<AlertOf("warning", "Low oxygen reserve", resources.oxygenBalance)>>
             ELSE <<>>
      crew ==
        IF resources.crewCapacity = 0
        THEN <<Alert("warning", "No living quarters")>>
        ELSE IF resources.crewCapacity < 4
             THEN <<AlertOf("warning", "Limited crew capacity", resources.crewCapacity)>>
             ELSE <<>>
      presentTypes == IF HasField(resources, "moduleTypes")      \* || []
                      THEN resources.moduleTypes ELSE <<>>
      airlock == IF ~Includes(presentTypes, "airlock")
                 THEN <<Alert("warning", "No airlock detected")>> ELSE <<>>
      generator == IF ~Includes(presentTypes, "power")
                   THEN <<Alert("danger", "No power modules")>> ELSE <<>>
      alerts == power \o oxygen \o crew \o airlock \o generator
  IN IF Len(alerts) = 0 THEN <<Alert("safe", "All systems nominal")>> ELSE alerts

----------------------------------------------------------------------------
(* ResourceCalculator: efficiency scores and recommendations.              *)
(* A score is a quotient of sums of catalog numbers; it is kept as the     *)
(* exact fraction n/d in lowest terms with d > 0.  The area enters by its  *)
(* value in tenths of a square metre (totalArea.t).                        *)

maxSpace == 1000         \* this.maxSpace

RECURSIVE GCD(_, _)
GCD(a, b) == IF b = 0 THEN a ELSE GCD(b, a % b)

Frac(n, d) ==
  LET g == GCD(Abs(n), d) IN [n |-> n \div g, d |-> d \div g]

Whole(n) == [n |-> n, d |-> 1]

FracLess(a, b) == a.n * b.d < b.n * a.d
FracLeq(a, b) == a.n * b.d <= b.n * a.d
FracAdd(a, b) == Frac(a.n * b.d + b.n * a.d, a.d * b.d)
FracMin(a, b) == IF FracLess(b, a) THEN b ELSE a      \* Math.min
FracMax(a, b) == IF FracLess(a, b) THEN b ELSE a      \* Math.max

(* Math.max(0, Math.min(100, efficiency + 50)) with                        *)
(* efficiency = (balance / consumption) * 100                              *)
Normalize(balance, consumption) ==
  FracMax(Whole(0),
          FracMin(Whole(100),
                  Frac(100 * balance + 50 * consumption, consumption)))

calculatePowerEfficiency(resources) ==
  IF resources.powerConsumption = 0 THEN Whole(100)
  ELSE Normalize(resources.powerBalance, resources.powerConsumption)

calculateOxygenEfficiency(resources) ==
  IF resources.oxygenConsumption = 0 THEN Whole(100)
  ELSE Normalize(resources.oxygenBalance, resources.oxygenConsumption)

(* spaceUsage = (totalArea / maxSpace) * 100, in percent *)
SpaceUsage(resources) == Frac(resources.totalArea.t * 100, 10 * maxSpace)

calculateSpaceEfficiency(resources) ==
  LET spaceUsage == SpaceUsage(resources) IN
  IF FracLess(spaceUsage, Whole(20)) THEN Frac(spaceUsage.n * 2, spaceUsage.d)
  ELSE IF FracLeq(spaceUsage, Whole(80)) THEN Whole(100)
  ELSE FracMax(Whole(0),
               Frac(100 * spaceUsage.d - (spaceUsage.n - 80 * spaceUsage.d) * 2,
                    spaceUsage.d))

calculateCrewEfficiency(resources) ==
  IF resources.modules = 0 THEN Whole(100)
  ELSE LET crewPerModule == Frac(resources.crewCapacity, resources.modules) IN
       IF FracLeq(Whole(1), crewPerModule) /\ FracLeq(crewPerModule, Whole(2))
       THEN Whole(100)
       ELSE IF FracLess(crewPerModule, Whole(1))
            THEN Frac(crewPerModule.n * 100, crewPerModule.d)
            ELSE FracMax(Whole(0),
                         Frac(100 * crewPerModule.d
                                - (crewPerModule.n - 2 * crewPerModule.d) * 20,
                              crewPerModule.d))

(* (scores.power + scores.oxygen + scores.space + scores.crew) / 4 *)
Overall(scores) ==
  LET total == FracAdd(FracAdd(FracAdd(scores.power, scores.oxygen),
                               scores.space), scores.crew)
  IN Frac(total.n, total.d * 4)

(* getEfficiencyScores with the overall score left at the sum of the four *)
getEfficiencyScores_OverallIsSum(mods) ==
  LET resources == calculateTotalResources(mods)
      scores == [power |-> calculatePowerEfficiency(resources),
                 oxygen |-> calculateOxygenEfficiency(resources),
                 space |-> calculateSpaceEfficiency(resources),
                 crew |-> calculateCrewEfficiency(resources)]
  IN scores @@ [overall |-> FracAdd(FracAdd(FracAdd(scores.power, scores.oxygen),
                                            scores.space), scores.crew)]

getEfficiencyScores(mods) ==
  LET resources == calculateTotalResources(mods)
      scores == [power |-> calculatePowerEfficiency(resources),
                 oxygen |-> calculateOxygenEfficiency(resources),
                 space |-> calculateSpaceEfficiency(resources),
                 crew |-> calculateCrewEfficiency(resources)]
  IN scores @@ [overall |-> Overall(scores)]

Recommendation(type, category, priority) ==
  [type |-> type, category |-> category, priority |-> priority]

(* the recommendations in the order they are pushed *)
Pushed(resources, scores) ==
  LET power ==
        IF FracLess(scores.power, Whole(70))
        THEN IF resources.powerBalance < 0
             THEN <<Recommendation("critical", "power", 1)>>
             ELSE <<Recommendation("suggestion", "power", 3)>>
        ELSE <<>>
      oxygen ==
        IF FracLess(scores.oxygen, Whole(70))
        THEN IF resources.oxygenBalance < 0
             THEN <<Recommendation("critical", "oxygen", 1)>>
             ELSE <<Recommendation("suggestion", "oxygen", 3)>>
        ELSE <<>>
      space ==
        IF FracLess(scores.space, Whole(50))
        THEN IF resources.totalArea.t * 10 > 9 * 10 * maxSpace   \* area / maxSpace > 0.9
             THEN <<Recommendation("warning", "space", 2)>>
             ELSE <<Recommendation("suggestion", "space", 3)>>
        ELSE <<>>
      crew ==
        IF FracLess(scores.crew, Whole(70))
        THEN IF resources.crewCapacity = 0
             THEN <<Recommendation("critical", "crew", 1)>>
             ELSE IF resources.crewCapacity < 4
                  THEN <<Recommendation("suggestion", "crew", 3)>>
                  ELSE <<>>
        ELSE <<>>
  IN power \o oxygen \o space \o crew

(* recommendations.sort((a, b) => a.priority - b.priority): the sort keeps *)
(* the pushed order among equal priorities                                 *)
SortByPriority(recommendations) ==
  SelectSeq(recommendations, LAMBDA r : r.priority = 1)
    \o SelectSeq(recommendations, LAMBDA r : r.priority = 2)
    \o SelectSeq(recommendations, LAMBDA r : r.priority = 3)

(* generateRecommendations returning the list as it was pushed *)
generateRecommendations_Unsorted(resources, scores) == Pushed(resources, scores)

generateRecommendations(resources, scores) ==
  SortByPriority(Pushed(resources, scores))

(* generateEfficiencyReport(modules), without its timestamp *)
generateEfficiencyReport(mods) ==
  LET scores == getEfficiencyScores(mods)
      resources == calculateTotalResources(mods)
  IN [scores |-> scores, resources |-> resources,
      recommendations |-> generateRecommendations(resources, scores)]

----------------------------------------------------------------------------
(* Bounds of the model *)

MaxModules == 2          \* longest module list explored
MaxId == 3               \* addModule is explored while nextModuleId <= MaxId
CoordLimit == 120        \* a drag is explored while |x|, |y| <= CoordLimit
MaxSteps == 4            \* handler runs explored from the opening of the page

DropTypes == {"power", "living-quarters", "hydroponics", "constructor", ""}
DropXs == {50, 160}
DropYs == {50}
MouseXs == {0, 100}
MouseYs == {0}
CanvasSizes == {[width |-> 220, height |-> 200], [width |-> 200, height |-> 200]}

(* localStorage: getItem yields null (NoDoc) or a text; a text is modelled  *)
(* by what JSON.parse makes of it                                           *)
NoDoc == [absent |-> TRUE]
Unparseable == [text |-> "{"]
NoModulesDoc == [version |-> "1.0"]
(* a document found at the opening of the page was written before it *)
Doc(entries) == [modules |-> entries, timestamp |-> "earlier", version |-> "1.0"]

PowerEntry ==
  [id |-> 1, type |-> "power", x |-> 0, y |-> 0,
   dimensions |-> [width |-> 100, height |-> 100]]
UnknownEntry ==
  [id |-> 2, type |-> "hydroponics", x |-> 100, y |-> 0,
   dimensions |-> [width |-> 100, height |-> 100]]
NoDimensionsEntry == [id |-> 3, type |-> "airlock", x |-> 0, y |-> 100]
(* an entry of the interchange shape {id, type, x, y} whose type the       *)
(* catalog does not know                                                   *)
UnknownBareEntry == [id |-> 2, type |-> "hydroponics", x |-> 100, y |-> 0]

(* the two keys when the page is opened: <<habitat-design, autosave>> *)
StorageAtOpen ==
  {<<NoDoc, Doc(<<PowerEntry, NoDimensionsEntry>>)>>,
   <<Doc(<<UnknownEntry, PowerEntry>>), NoModulesDoc>>,
   <<Doc(<<UnknownBareEntry, PowerEntry>>), Unparseable>>}

----------------------------------------------------------------------------
(* designer.js (class HabitatDesigner) and app.js (class HabitatApp)        *)

VARIABLES
  modules,          \* HabitatDesigner.modules: sequence of module objects
  selectedModule,   \* HabitatDesigner.selectedModule: a module object or NULL
  dragState,        \* HabitatDesigner.dragState
  nextModuleId,     \* HabitatDesigner.nextModuleId
  canvasRect,       \* HabitatDesigner.canvasRect (width, height)
  elements,         \* refs of the module objects that have a .habitat-module element
  habitatDesign,    \* localStorage['habitat-design']
  autosave,         \* localStorage['habitat-design-autosave']
  autoLoadPending,  \* the setTimeout(loadAutoSave, 500) has not fired yet
  shown,            \* snapshot last handed to the resource displays
  everHeld,         \* history: every id a module of the list has held
  dragOrigin,       \* history: x,y of the dragged module at mousedown
  lastOp,           \* history: the operation the last handler ran and how it ended
  nextRef,          \* identity of the next module object created
  steps,            \* history: the number of handler runs so far
  call,             \* pure-function harness: the call
  ret               \* pure-function harness: its result

vars == <<modules, selectedModule, dragState, nextModuleId, canvasRect,
          elements, habitatDesign, autosave, autoLoadPending, shown,
          everHeld, dragOrigin, lastOp, nextRef, steps, call, ret>>

designerVars == <<modules, selectedModule, dragState, nextModuleId, canvasRect,
                  elements, habitatDesign, autosave, autoLoadPending, shown,
                  everHeld, dragOrigin, lastOp, nextRef, steps>>

NoDrag == [isDragging |-> FALSE, module |-> NULL, offset |-> [x |-> 0, y |-> 0]]

NoCall == [fn |-> "none"]

Range(seq) == {seq[i] : i \in 1..Len(seq)}

Ids(mods) == {mods[i].id : i \in 1..Len(mods)}

(* object identity: a module object carries a ref, which JSON does not;   *)
(* nextRef is the ref the next object created gets, so no ref is reused   *)
WithRef(e, r) == [f \in DOMAIN e \cup {"ref"} |-> IF f = "ref" THEN r ELSE e[f]]

(* JSON.stringify of a module object, then JSON.parse *)
ToJSON(m) == [f \in DOMAIN m \ {"ref"} |-> m[f]]

Stringify(mods) ==
  [modules |-> [i \in 1..Len(mods) |-> ToJSON(mods[i])],
   timestamp |-> "now", version |-> "1.0"]

(* the state a HabitatDesigner method works on *)
Designer == [modules |-> modules, selectedModule |-> selectedModule,
             nextModuleId |-> nextModuleId, elements |-> elements,
             shown |-> shown, nextRef |-> nextRef]

(* updateResources adding the module count to the count shown before *)
updateResources_Accumulates(d) ==
  [d EXCEPT !.shown = [Snapshot(d.modules) EXCEPT
                          !.modules = d.shown.modules + Len(d.modules)]]

(* updateResources leaving the displays as they were *)
updateResources_Idle(d) == d

(* HabitatDesigner.updateResources -> ResourceCalculator.updateResources *)
updateResources(d) == [d EXCEPT !.shown = Snapshot(d.modules)]

(* createModuleElement reads module.dimensions.width before it attaches the *)
(* element: a module object without dimensions raises a TypeError there     *)
createModuleElementThrows(module) == ~HasField(module, "dimensions")

(* selectModule / deselectModule: only the selection is state *)
selectModule(d, module) == [d EXCEPT !.selectedModule = module]

deselectModule(d) == [d EXCEPT !.selectedModule = NULL]

(* addModule taking the id (this.nextModuleId++) before it validates *)
addModule_CountsFailed(d, moduleType, x, y, rect) ==
  LET moduleInfo == getModuleType(moduleType) IN
  IF moduleInfo = NULL THEN [d |-> d, outcome |-> "unknown type"]
  ELSE IF ~HasField(moduleInfo, "dimensions")
       THEN [d |-> d, outcome |-> "TypeError"]
  ELSE
    LET adjustedX == Max(0, x - moduleInfo.dimensions.width \div 2)
        adjustedY == Max(0, y - moduleInfo.dimensions.height \div 2)
        taken == [d EXCEPT !.nextModuleId = d.nextModuleId + 1]
        validation == validateModulePlacement(
                        moduleType, [x |-> adjustedX, y |-> adjustedY],
                        d.modules, [width |-> rect.width, height |-> rect.height])
    IN IF validation = THROWN THEN [d |-> taken, outcome |-> "TypeError"]
       ELSE IF ~validation.valid THEN [d |-> taken, outcome |-> validation.reason]
       ELSE
         LET module == [ref |-> d.nextRef,
                        id |-> d.nextModuleId, type |-> moduleType,
                        x |-> adjustedX, y |-> adjustedY,
                        dimensions |-> moduleInfo.dimensions]
         IN [d |-> updateResources(
                     [taken EXCEPT !.nextRef = d.nextRef + 1,
                                   !.modules = Append(d.modules, module),
                                   !.elements = d.elements \cup {module.ref}]),
             outcome |-> "added"]

(* addModule(moduleType, x, y): the designer state it leaves and how it ended *)
addModule(d, moduleType, x, y, rect) ==
  LET moduleInfo == getModuleType(moduleType) IN
  IF moduleInfo = NULL THEN [d |-> d, outcome |-> "unknown type"]
  ELSE IF ~HasField(moduleInfo, "dimensions")
       THEN [d |-> d, outcome |-> "TypeError"]      \* undefined.width
  ELSE
    LET adjustedX == Max(0, x - moduleInfo.dimensions.width \div 2)
        adjustedY == Max(0, y - moduleInfo.dimensions.height \div 2)
        validation == validateModulePlacement(
                        moduleType, [x |-> adjustedX, y |-> adjustedY],
                        d.modules, [width |-> rect.width, height |-> rect.height])
    IN IF validation = THROWN THEN [d |-> d, outcome |-> "TypeError"]
       ELSE IF ~validation.valid THEN [d |-> d, outcome |-> validation.reason]
       ELSE
         LET module == [ref |-> d.nextRef,
                        id |-> d.nextModuleId, type |-> moduleType,
                        x |-> adjustedX, y |-> adjustedY,
                        dimensions |-> moduleInfo.dimensions]
         IN [d |-> updateResources(
                     [d EXCEPT !.nextModuleId = d.nextModuleId + 1,
                               !.nextRef = d.nextRef + 1,
                               !.modules = Append(d.modules, module),
                               !.elements = d.elements \cup {module.ref}]),
             outcome |-> "added"]

(* modules.findIndex(m => m.id === moduleId), 0 for -1 *)
findIndex(mods, moduleId) ==
  IF moduleId \in Ids(mods)
  THEN CHOOSE i \in 1..Len(mods) :
         mods[i].id = moduleId /\ \A j \in 1..(i - 1) : mods[j].id # moduleId
  ELSE 0

RemoveAt(seq, i) == SubSeq(seq, 1, i - 1) \o SubSeq(seq, i + 1, Len(seq))

(* document.querySelector('.habitat-module[data-module-id=..]'): the first  *)
(* element in document order, which is the order of the module list         *)
querySelector(d, moduleId) ==
  LET have == {i \in 1..Len(d.modules) :
                 d.modules[i].id = moduleId /\ d.modules[i].ref \in d.elements}
  IN IF have = {} THEN {}
     ELSE {d.modules[CHOOSE i \in have : \A j \in have : i <= j].ref}

(* removeModule removing the last module of the list (splice(-1, 1)) *)
removeModule_SplicesLast(d, moduleId) ==
  LET moduleIndex == findIndex(d.modules, moduleId) IN
  IF moduleIndex = 0 THEN d
  ELSE updateResources(
         [d EXCEPT !.elements = d.elements \ querySelector(d, moduleId),
                   !.modules = RemoveAt(d.modules, Len(d.modules)),
                   !.selectedModule =
                      IF d.selectedModule # NULL /\ d.selectedModule.id = moduleId
                      THEN NULL ELSE d.selectedModule])

(* removeModule leaving the selection as it was *)
removeModule_KeepsSelection(d, moduleId) ==
  LET moduleIndex == findIndex(d.modules, moduleId) IN
  IF moduleIndex = 0 THEN d
  ELSE updateResources(
         [d EXCEPT !.elements = d.elements \ querySelector(d, moduleId),
                   !.modules = RemoveAt(d.modules, moduleIndex)])

(* removeModule leaving the displays as they were *)
removeModule_KeepsDisplay(d, moduleId) ==
  LET moduleIndex == findIndex(d.modules, moduleId) IN
  IF moduleIndex = 0 THEN d
  ELSE [d EXCEPT !.elements = d.elements \ querySelector(d, moduleId),
                 !.modules = RemoveAt(d.modules, moduleIndex),
                 !.selectedModule =
                    IF d.selectedModule # NULL /\ d.selectedModule.id = moduleId
                    THEN NULL ELSE d.selectedModule]

(* removeModule giving the id of the removed module back to the counter *)
removeModule_ReleasesId(d, moduleId) ==
  LET moduleIndex == findIndex(d.modules, moduleId) IN
  IF moduleIndex = 0 THEN d
  ELSE updateResources(
         [d EXCEPT !.elements = d.elements \ querySelector(d, moduleId),
                   !.modules = RemoveAt(d.modules, moduleIndex),
                   !.nextModuleId = moduleId,
                   !.selectedModule =
                      IF d.selectedModule # NULL /\ d.selectedModule.id = moduleId
                      THEN NULL ELSE d.selectedModule])

(* removeModule(moduleId) *)
removeModule(d, moduleId) ==
  LET moduleIndex == findIndex(d.modules, moduleId) IN
  IF moduleIndex = 0 THEN d
  ELSE updateResources(
         [d EXCEPT !.elements = d.elements \ querySelector(d, moduleId),
                   !.modules = RemoveAt(d.modules, moduleIndex),
                   !.selectedModule =
                      IF d.selectedModule # NULL /\ d.selectedModule.id = moduleId
                      THEN NULL ELSE d.selectedModule])

(* clearHabitat(): confirmed is the answer the user gives to confirm() *)
clearHabitat(d, confirmed) ==
  IF Len(d.modules) = 0 THEN d
  ELSE IF confirmed
       THEN updateResources([d EXCEPT !.elements = {}, !.modules = <<>>,
                                      !.selectedModule = NULL])
       ELSE d

(* habitatData.modules.forEach(push; createModuleElement), from entry i on *)
RECURSIVE restoreLoop(_, _, _)
restoreLoop(d, entries, i) ==
  IF i > Len(entries) THEN [d |-> d, threw |-> FALSE]
  ELSE LET moduleData == WithRef(entries[i], d.nextRef)
           pushed == [d EXCEPT !.modules = Append(d.modules, moduleData),
                               !.nextRef = d.nextRef + 1]
       IN IF createModuleElementThrows(moduleData)
          THEN [d |-> pushed, threw |-> TRUE]
          ELSE restoreLoop([pushed EXCEPT !.elements = pushed.elements \cup {moduleData.ref}],
                           entries, i + 1)

MaxOf(S) == CHOOSE m \in S : \A n \in S : n <= m

(* the body of loadHabitat's try block after JSON.parse, which is also the  *)
(* body of loadAutoSave's if (confirm(..)) block                            *)
restore(d, habitatData, confirmed) ==
  LET cleared == clearHabitat(d, confirmed) IN
  IF ~HasField(habitatData, "modules")
  THEN [d |-> cleared, outcome |-> "TypeError"]       \* undefined.forEach
  ELSE LET loaded == restoreLoop(cleared, habitatData.modules, 1) IN
       IF loaded.threw THEN [d |-> loaded.d, outcome |-> "TypeError"]
       ELSE [d |-> updateResources(
                     IF Len(loaded.d.modules) > 0
                     THEN [loaded.d EXCEPT !.nextModuleId =
                                              MaxOf(Ids(loaded.d.modules)) + 1]
                     ELSE loaded.d),
             outcome |-> "loaded"]

loadHabitat(d, savedData, confirmed) ==
  IF savedData = NoDoc THEN [d |-> d, outcome |-> "nothing saved"]
  ELSE IF HasField(savedData, "text")
       THEN [d |-> d, outcome |-> "SyntaxError"]      \* JSON.parse throws
       ELSE restore(d, savedData, confirmed)

loadAutoSave(d, autoSavedData, restoreIt, confirmed) ==
  IF autoSavedData = NoDoc THEN [d |-> d, outcome |-> "nothing saved"]
  ELSE IF HasField(autoSavedData, "text")
       THEN [d |-> d, outcome |-> "SyntaxError"]
       ELSE IF restoreIt THEN restore(d, autoSavedData, confirmed)
            ELSE [d |-> d, outcome |-> "declined"]

----------------------------------------------------------------------------
(* The handlers as actions *)

(* the designer state a handler leaves *)
Leaves(d) ==
  /\ modules' = d.modules
  /\ selectedModule' = d.selectedModule
  /\ nextModuleId' = d.nextModuleId
  /\ elements' = d.elements
  /\ shown' = d.shown
  /\ nextRef' = d.nextRef
  /\ everHeld' = everHeld \cup Ids(d.modules)
  /\ steps < MaxSteps
  /\ steps' = steps + 1

(* a handler of the selection, the pointer, the timers or the storage *)
Stays(d) == Leaves(d) /\ lastOp' = [op |-> "other", outcome |-> "ok"]

(* an operation on the module list (add, remove, clear, restore, release): *)
(* the history records it and how it ended                                 *)
Becomes(d, op, outcome) == Leaves(d) /\ lastOp' = [op |-> op, outcome |-> outcome]

Init ==
  /\ modules = <<>>
  /\ selectedModule = NULL
  /\ dragState = NoDrag
  /\ nextModuleId = 1
  /\ canvasRect = [width |-> 220, height |-> 200]
  /\ elements = {}
  /\ \E stored \in StorageAtOpen :
        habitatDesign = stored[1] /\ autosave = stored[2]
  /\ autoLoadPending = TRUE
  /\ shown = Snapshot(<<>>)
  /\ everHeld = {}
  /\ dragOrigin = NULL
  /\ lastOp = [op |-> "init", outcome |-> "ok"]
  /\ nextRef = 1
  /\ steps = 0
  /\ call = NoCall
  /\ ret = NoCall

(* handleCanvasDrop: the dropped text and the drop point relative to the canvas *)
HandleCanvasDrop(moduleType, dropX, dropY) ==
  /\ IF moduleType = ""
     THEN Stays(Designer)                    \* if (!moduleType) return
     ELSE LET res == addModule(Designer, moduleType, dropX, dropY, canvasRect)
          IN /\ res.outcome = "added" =>
                  Len(modules) < MaxModules /\ nextModuleId <= MaxId
             /\ Becomes(res.d, "addModule", res.outcome)
  /\ UNCHANGED <<dragState, canvasRect, habitatDesign, autosave, autoLoadPending,
                 dragOrigin, call, ret>>

(* a click on the element of module i *)
HandleModuleClick(i) ==
  /\ i \in 1..Len(modules)
  /\ modules[i].ref \in elements
  /\ Stays(selectModule(Designer, modules[i]))
  /\ UNCHANGED <<dragState, canvasRect, habitatDesign, autosave, autoLoadPending,
                 dragOrigin, call, ret>>

HandleCanvasClick ==
  /\ Stays(deselectModule(Designer))
  /\ UNCHANGED <<dragState, canvasRect, habitatDesign, autosave, autoLoadPending,
                 dragOrigin, call, ret>>

(* handleModuleMouseDown on the element of module i, left button *)
HandleModuleMouseDown(i, clientX, clientY) ==
  /\ i \in 1..Len(modules)
  /\ modules[i].ref \in elements
  /\ Stays(selectModule(Designer, modules[i]))
  /\ dragState' = [isDragging |-> TRUE, module |-> modules[i],
                   offset |-> [x |-> clientX - modules[i].x,
                               y |-> clientY - modules[i].y]]
  /\ dragOrigin' = [ref |-> modules[i].ref, x |-> modules[i].x, y |-> modules[i].y]
  /\ UNCHANGED <<canvasRect, habitatDesign, autosave, autoLoadPending, call, ret>>

(* the object dragState.module is written: every holder of it sees the write *)
Moved(m, ref, newX, newY) ==
  IF m # NULL /\ m.ref = ref THEN [m EXCEPT !.x = newX, !.y = newY] ELSE m

HandleMouseMove(clientX, clientY) ==
  /\ IF ~dragState.isDragging
     THEN /\ Stays(Designer)
          /\ UNCHANGED dragState
     ELSE LET newX == clientX - dragState.offset.x
              newY == clientY - dragState.offset.y
              ref == dragState.module.ref
          IN /\ newX \in -CoordLimit..CoordLimit
             /\ newY \in -CoordLimit..CoordLimit
             /\ Stays([Designer EXCEPT
                           !.modules = [k \in 1..Len(modules) |->
                                          Moved(modules[k], ref, newX, newY)],
                           !.selectedModule = Moved(selectedModule, ref, newX, newY)])
             /\ dragState' = [dragState EXCEPT
                                !.module = Moved(dragState.module, ref, newX, newY)]
  /\ UNCHANGED <<canvasRect, habitatDesign, autosave, autoLoadPending,
                 dragOrigin, call, ret>>

(* modules.filter(m => m.id !== id) *)
FilterOthers(mods, id) == SelectSeq(mods, LAMBDA m : m.id # id)

HandleMouseUp ==
  /\ IF ~dragState.isDragging
     THEN /\ Becomes(Designer, "mouseup", "not dragging")
          /\ UNCHANGED dragState
     ELSE LET validation == validateModulePlacement(
                              dragState.module.type,
                              [x |-> dragState.module.x, y |-> dragState.module.y],
                              FilterOthers(modules, dragState.module.id),
                              [width |-> canvasRect.width, height |-> canvasRect.height])
          IN IF validation = THROWN
             THEN /\ Becomes(Designer, "mouseup", "TypeError")
                  /\ UNCHANGED dragState
             ELSE /\ Becomes(updateResources(Designer), "mouseup",
                             IF validation.valid THEN "valid" ELSE validation.reason)
                  /\ dragState' = NoDrag
  /\ UNCHANGED <<canvasRect, habitatDesign, autosave, autoLoadPending,
                 dragOrigin, call, ret>>

HandleKeyDown(key) ==
  /\ IF key = "Delete" /\ selectedModule # NULL
     THEN Becomes(removeModule(Designer, selectedModule.id), "removeModule", "key")
     ELSE IF key = "Escape"
          THEN Stays(deselectModule(Designer))
          ELSE Stays(Designer)
  /\ UNCHANGED <<dragState, canvasRect, habitatDesign, autosave, autoLoadPending,
                 dragOrigin, call, ret>>

(* removeModule(moduleId) called by the shell *)
RemoveModule(moduleId) ==
  /\ Becomes(removeModule(Designer, moduleId), "removeModule",
             IF moduleId \in Ids(modules) THEN "removed" ELSE "absent")
  /\ UNCHANGED <<dragState, canvasRect, habitatDesign, autosave, autoLoadPending,
                 dragOrigin, call, ret>>

ClearHabitat(confirmed) ==
  /\ Becomes(clearHabitat(Designer, confirmed), "clearHabitat",
             IF Len(modules) = 0 THEN "empty"
             ELSE IF confirmed THEN "cleared" ELSE "declined")
  /\ UNCHANGED <<dragState, canvasRect, habitatDesign, autosave, autoLoadPending,
                 dragOrigin, call, ret>>

SaveHabitat ==
  /\ habitatDesign' = Stringify(modules)
  /\ Stays(Designer)
  /\ UNCHANGED <<dragState, canvasRect, autosave, autoLoadPending,
                 dragOrigin, call, ret>>

LoadHabitat(confirmed) ==
  /\ LET res == loadHabitat(Designer, habitatDesign, confirmed)
     IN /\ Len(res.d.modules) <= MaxModules
        /\ Becomes(res.d, "loadHabitat", res.outcome)
  /\ UNCHANGED <<dragState, canvasRect, habitatDesign, autosave, autoLoadPending,
                 dragOrigin, call, ret>>

(* the timeout set by showWelcomeMessage fires, once *)
LoadAutoSave(restoreIt, confirmed) ==
  /\ autoLoadPending
  /\ autoLoadPending' = FALSE
  /\ LET res == loadAutoSave(Designer, autosave, restoreIt, confirmed)
     IN /\ Len(res.d.modules) <= MaxModules
        /\ Becomes(res.d, "loadAutoSave", res.outcome)
  /\ UNCHANGED <<dragState, canvasRect, habitatDesign, autosave,
                 dragOrigin, call, ret>>

(* autoSave: the 30 s timer with a non-empty list, and onAppPause *)
AutoSave ==
  /\ Len(modules) > 0
  /\ autoLoadPending        \* afterwards nothing reads the key again
  /\ autosave' = Stringify(modules)
  /\ Stays(Designer)
  /\ UNCHANGED <<dragState, canvasRect, habitatDesign, autoLoadPending,
                 dragOrigin, call, ret>>

(* the 5 s timer of setupPeriodicUpdates, and onAppResume *)
PeriodicUpdate ==
  /\ Stays(updateResources(Designer))
  /\ UNCHANGED <<dragState, canvasRect, habitatDesign, autosave, autoLoadPending,
                 dragOrigin, call, ret>>

(* updateCanvasRect: the canvas is measured again after a resize *)
UpdateCanvasRect(size) ==
  /\ canvasRect' = size
  /\ Stays(Designer)
  /\ UNCHANGED <<dragState, habitatDesign, autosave, autoLoadPending,
                 dragOrigin, call, ret>>

Next ==
  \/ \E t \in DropTypes, x \in DropXs, y \in DropYs : HandleCanvasDrop(t, x, y)
  \/ \E i \in 1..MaxModules + 1 : HandleModuleClick(i)
  \/ HandleCanvasClick
  \/ \E i \in 1..MaxModules + 1, x \in MouseXs, y \in MouseYs :
        HandleModuleMouseDown(i, x, y)
  \/ \E x \in MouseXs, y \in MouseYs : HandleMouseMove(x, y)
  \/ HandleMouseUp
  \/ \E key \in {"Delete", "Escape"} : HandleKeyDown(key)
  \/ \E id \in 1..MaxId + 1 : RemoveModule(id)
  \/ \E c \in BOOLEAN : ClearHabitat(c)
  \/ SaveHabitat
  \/ \E c \in BOOLEAN : LoadHabitat(c)
  \/ \E r \in BOOLEAN, c \in BOOLEAN : LoadAutoSave(r, c)
  \/ AutoSave
  \/ PeriodicUpdate
  \/ \E size \in CanvasSizes : UpdateCanvasRect(size)

Spec == Init /\ [][Next]_vars

(* The 5 s interval of setupPeriodicUpdates as a timer that never stops:   *)
(* it fires whatever the number of handler runs so far, and weak fairness  *)
(* says it keeps firing                                                    *)
TimerFires ==
  /\ shown' = updateResources(Designer).shown
  /\ everHeld' = everHeld \cup Ids(modules)
  /\ lastOp' = [op |-> "other", outcome |-> "ok"]
  /\ UNCHANGED <<modules, selectedModule, dragState, nextModuleId, canvasRect,
                 elements, habitatDesign, autosave, autoLoadPending, dragOrigin,
                 nextRef, steps, call, ret>>

MaxLiveSteps == 3        \* handler runs explored between the timer's firings

(* every handler, and the timer *)
LiveNext ==
  \/ steps < MaxLiveSteps
       /\ \E t \in DropTypes, x \in DropXs, y \in DropYs : HandleCanvasDrop(t, x, y)
  \/ steps < MaxLiveSteps /\ \E i \in 1..MaxModules + 1 : HandleModuleClick(i)
  \/ steps < MaxLiveSteps /\ HandleCanvasClick
  \/ steps < MaxLiveSteps
       /\ \E i \in 1..MaxModules + 1, x \in MouseXs, y \in MouseYs :
             HandleModuleMouseDown(i, x, y)
  \/ steps < MaxLiveSteps /\ \E x \in MouseXs, y \in MouseYs : HandleMouseMove(x, y)
  \/ steps < MaxLiveSteps /\ HandleMouseUp
  \/ steps < MaxLiveSteps /\ \E key \in {"Delete", "Escape"} : HandleKeyDown(key)
  \/ steps < MaxLiveSteps /\ \E id \in 1..MaxId + 1 : RemoveModule(id)
  \/ steps < MaxLiveSteps /\ \E c \in BOOLEAN : ClearHabitat(c)
  \/ steps < MaxLiveSteps /\ SaveHabitat
  \/ steps < MaxLiveSteps /\ \E c \in BOOLEAN : LoadHabitat(c)
  \/ steps < MaxLiveSteps /\ \E r \in BOOLEAN, c \in BOOLEAN : LoadAutoSave(r, c)
  \/ steps < MaxLiveSteps /\ AutoSave
  \/ steps < MaxLiveSteps /\ \E size \in CanvasSizes : UpdateCanvasRect(size)
  \/ TimerFires

LiveSpec == Init /\ [][LiveNext]_vars /\ WF_vars(TimerFires)

(* A habitat worked on with addModule and removeModule only: no restore,   *)
(* clear or drag takes place                                               *)
AddRemoveInit == Init /\ habitatDesign = NoDoc

AddRemoveNext ==
  \/ \E t \in DropTypes, x \in DropXs, y \in DropYs : HandleCanvasDrop(t, x, y)
  \/ \E i \in 1..MaxModules + 1 : HandleModuleClick(i)
  \/ \E key \in {"Delete", "Escape"} : HandleKeyDown(key)
  \/ \E id \in 1..MaxId + 1 : RemoveModule(id)

AddRemoveSpec == AddRemoveInit /\ [][AddRemoveNext]_vars

----------------------------------------------------------------------------
(* The pure functions of HabitatModules applied to drawn arguments:        *)
(* call is the argument list, ret the returned value                       *)

MaxExisting == 2         \* longest existingModules list drawn
MaxCoord == 2            \* rectangles drawn have x, y in 0..MaxCoord
MaxExtent == 2           \* and width, height in 1..MaxExtent

CandidateTypes == {"power", "airlock", "hydroponics", "constructor"}
CandidateXs == {-1, 0, 20, 100, 120, 121, 140, 141}
CandidateYs == {-1, 0, 100, 101, 120, 121}

(* modules a list may hold: placed ones and one restored with an unknown type *)
ExistingPool ==
  {[id |-> 1, type |-> "power", x |-> 0, y |-> 0],
   [id |-> 2, type |-> "airlock", x |-> 100, y |-> 0],
   [id |-> 3, type |-> "hydroponics", x |-> 100, y |-> 100]}

SeqsUpTo(S, n) == UNION {[1..k -> S] : k \in 0..n}

ValidateCalls ==
  {[fn |-> "validateModulePlacement", moduleType |-> t,
    position |-> [x |-> x, y |-> y], existingModules |-> e,
    canvasSize |-> [width |-> 220, height |-> 200]] :
     t \in CandidateTypes, x \in CandidateXs, y \in CandidateYs,
     e \in SeqsUpTo(ExistingPool, MaxExisting)}

Rects ==
  {[x |-> x, y |-> y, width |-> w, height |-> h] :
     x \in 0..MaxCoord, y \in 0..MaxCoord, w \in 1..MaxExtent, h \in 1..MaxExtent}

(* the rectangle made for a module whose type yields no dimensions *)
PointRects == {[x |-> 1, y |-> 1]}

OverlapCalls ==
  {[fn |-> "modulesOverlap", module1 |-> a, module2 |-> b] :
     a \in Rects \cup PointRects, b \in Rects \cup PointRects}

MaxListed == 3           \* longest module list handed to the aggregator

(* types of the modules a list may hold: the catalog's, one the catalog    *)
(* does not know and one that names an inherited property                  *)
ListedTypes == getAllModuleTypes \cup {"hydroponics", "constructor"}

(* the aggregator reads nothing of a module but its type *)
AggregateCalls ==
  {[fn |-> "calculateTotalResources", modules |-> l] :
     l \in SeqsUpTo({[type |-> t] : t \in ListedTypes}, MaxListed)}

(* a habitat that needs one more module for every alert rule to stay quiet *)
NominalCore ==
  <<[type |-> "power"], [type |-> "power"], [type |-> "airlock"],
    [type |-> "greenhouse"]>>

MaxRated == 3            \* longest module list rated for alerts and scores

(* types of the modules of a rated list: catalog types and an unknown one *)
RatedTypes ==
  {"power", "living-quarters", "laboratory", "greenhouse", "recreation",
   "airlock", "hydroponics"}

RatedModules == SeqsUpTo({[type |-> t] : t \in RatedTypes}, MaxRated)

(* the snapshots updateResources hands to getSafetyAlerts *)
AlertCalls ==
  {[fn |-> "getSafetyAlerts", modules |-> core \o l, resources |-> Snapshot(core \o l)] :
     core \in {<<>>, NominalCore}, l \in RatedModules}

ScoreCalls == {[fn |-> "getEfficiencyScores", modules |-> l] : l \in RatedModules}

ReportCalls == {[fn |-> "generateEfficiencyReport", modules |-> l] : l \in RatedModules}

Returned(v) == [value |-> v]

PureInit ==
  /\ modules = <<>>
  /\ selectedModule = NULL
  /\ dragState = NoDrag
  /\ nextModuleId = 1
  /\ canvasRect = [width |-> 220, height |-> 200]
  /\ elements = {}
  /\ habitatDesign = NoDoc
  /\ autosave = NoDoc
  /\ autoLoadPending = TRUE
  /\ shown = Snapshot(<<>>)
  /\ everHeld = {}
  /\ dragOrigin = NULL
  /\ lastOp = [op |-> "init", outcome |-> "ok"]
  /\ nextRef = 1
  /\ steps = 0
  /\ call \in ValidateCalls \cup OverlapCalls \cup AggregateCalls
               \cup AlertCalls \cup ScoreCalls \cup ReportCalls
  /\ ret = NoCall

CallValidateModulePlacement ==
  /\ call.fn = "validateModulePlacement"
  /\ ret = NoCall
  /\ ret' = Returned(validateModulePlacement(call.moduleType, call.position,
                                             call.existingModules, call.canvasSize))
  /\ UNCHANGED <<call, designerVars>>

CallModulesOverlap ==
  /\ call.fn = "modulesOverlap"
  /\ ret = NoCall
  /\ ret' = Returned(modulesOverlap(call.module1, call.module2))
  /\ UNCHANGED <<call, designerVars>>

CallCalculateTotalResources ==
  /\ call.fn = "calculateTotalResources"
  /\ ret = NoCall
  /\ ret' = Returned(calculateTotalResources(call.modules))
  /\ UNCHANGED <<call, designerVars>>

CallGetSafetyAlerts ==
  /\ call.fn = "getSafetyAlerts"
  /\ ret = NoCall
  /\ ret' = Returned(getSafetyAlerts(call.resources))
  /\ UNCHANGED <<call, designerVars>>

CallGetEfficiencyScores ==
  /\ call.fn = "getEfficiencyScores"
  /\ ret = NoCall
  /\ ret' = Returned(getEfficiencyScores(call.modules))
  /\ UNCHANGED <<call, designerVars>>

CallGenerateEfficiencyReport ==
  /\ call.fn = "generateEfficiencyReport"
  /\ ret = NoCall
  /\ ret' = Returned(generateEfficiencyReport(call.modules))
  /\ UNCHANGED <<call, designerVars>>

PureNext ==
  \/ CallValidateModulePlacement
  \/ CallModulesOverlap
  \/ CallCalculateTotalResources
  \/ CallGetSafetyAlerts
  \/ CallGetEfficiencyScores
  \/ CallGenerateEfficiencyReport

PureSpec == PureInit /\ [][PureNext]_vars

ValidateDone == call.fn = "validateModulePlacement" /\ ret # NoCall
OverlapDone == call.fn = "modulesOverlap" /\ ret # NoCall
AggregateDone == call.fn = "calculateTotalResources" /\ ret # NoCall
AlertsDone == call.fn = "getSafetyAlerts" /\ ret # NoCall
ScoresDone == call.fn = "getEfficiencyScores" /\ ret # NoCall
ReportDone == call.fn = "generateEfficiencyReport" /\ ret # NoCall

----------------------------------------------------------------------------
(* Habitat State invariants *)

(* C1: in every reachable state no two modules of the module list have the *)
(* same id.                                                                *)
C1_UniqueIds ==
  \A i, j \in 1..Len(modules) : i # j => modules[i].id # modules[j].id

(* C2: in every reachable state nextModuleId is strictly greater than      *)
(* every id a module of the list holds or has held earlier in the run.     *)
C2_NextIdAboveEveryId ==
  \A id \in everHeld \cup Ids(modules) : nextModuleId > id

(* the module object ref as the list mods stores it (at most one) *)
Stored(mods, ref) == {m \in Range(mods) : m.ref = ref}

Released == dragState.isDragging /\ ~dragState'.isDragging

(* C3: repositioning is commit-or-rollback.  While a drag is in progress   *)
(* the list keeps the dragged module at its pre-drag x,y; after a release  *)
(* whose validation fails the stored x,y are the pre-drag ones; and the    *)
(* stored x,y of a module change only in a release that validates.         *)
C3_CommitOrRollback ==
  [][ /\ dragState'.isDragging =>
           \A m \in Stored(modules', dragState'.module.ref) :
              m.x = dragOrigin'.x /\ m.y = dragOrigin'.y
      /\ Released /\ lastOp'.outcome # "valid" =>
           \A m \in Stored(modules', dragOrigin.ref) :
              m.x = dragOrigin.x /\ m.y = dragOrigin.y
      /\ \A m \in Range(modules) : \A n \in Stored(modules', m.ref) :
           (n.x # m.x \/ n.y # m.y) => Released /\ lastOp'.outcome = "valid"
    ]_vars

(* a persisted document with missing or invalid fields: unparseable text,  *)
(* or no modules list                                                      *)
Malformed(doc) ==
  \/ HasField(doc, "text")
  \/ doc # NoDoc /\ ~HasField(doc, "text") /\ ~HasField(doc, "modules")

RestoreStep ==
  \/ Malformed(habitatDesign) /\ \E c \in BOOLEAN : LoadHabitat(c)
  \/ Malformed(autosave) /\ \E r, c \in BOOLEAN : LoadAutoSave(r, c)

(* C4: restore is all-or-nothing.  A loadHabitat or loadAutoSave given a   *)
(* malformed document leaves the module list, nextModuleId and the         *)
(* selection as they were before the call.                                 *)
C4_RestoreAllOrNothing ==
  [][ RestoreStep => /\ modules' = modules
                     /\ nextModuleId' = nextModuleId
                     /\ selectedModule' = selectedModule ]_vars

----------------------------------------------------------------------------
(* Placement validator *)

(* C5: validateModulePlacement always returns a result value, valid or     *)
(* invalid with a reason, and never raises a fault, also when the list     *)
(* holds a restored module whose type is not in the catalog.               *)
C5_ValidateNeverThrows ==
  ValidateDone =>
    /\ ret.value # THROWN
    /\ ret.value \in {VALID, Invalid(ReasonType), Invalid(ReasonBounds),
                      Invalid(ReasonOverlap)}

(* two rectangles with positive extents have a common interior point *)
Intersect(a, b) ==
  /\ a.x < b.x + b.width /\ b.x < a.x + a.width
  /\ a.y < b.y + b.height /\ b.y < a.y + a.height

CatalogRect(m) ==
  [x |-> m.x, y |-> m.y,
   width |-> moduleTypes[m.type].dimensions.width,
   height |-> moduleTypes[m.type].dimensions.height]

(* the contract of the validator: unknown type, then out of bounds, then   *)
(* overlap, else valid                                                     *)
Contract(c) ==
  IF c.moduleType \notin getAllModuleTypes THEN Invalid(ReasonType)
  ELSE LET cand == CatalogRect([type |-> c.moduleType,
                                x |-> c.position.x, y |-> c.position.y])
       IN IF \/ cand.x < 0 \/ cand.y < 0
             \/ cand.x + cand.width > c.canvasSize.width
             \/ cand.y + cand.height > c.canvasSize.height
          THEN Invalid(ReasonBounds)
          ELSE IF \E e \in Range(c.existingModules) : Intersect(cand, CatalogRect(e))
               THEN Invalid(ReasonOverlap)
               ELSE VALID

AllCatalogTypes(mods) == \A e \in Range(mods) : e.type \in getAllModuleTypes

(* C6: for every candidate type, position and bounds and every list whose  *)
(* modules all have catalog types, validateModulePlacement returns what    *)
(* the contract says, the three failure causes in their precedence.        *)
C6_ValidateContract ==
  ValidateDone /\ AllCatalogTypes(call.existingModules) =>
    ret.value = Contract(call)

(* the part of C6 the code keeps: the candidate type is not a property     *)
(* name inherited from Object.prototype                                    *)
C6_ContractForOwnKeys ==
  ValidateDone /\ AllCatalogTypes(call.existingModules)
               /\ call.moduleType \notin ObjectPrototypeKeys =>
    ret.value = Contract(call)

(* C7: bounds are exact and inclusive.  With no existing modules, a        *)
(* candidate at x >= 0, y >= 0 whose far edge is on the surface edge is    *)
(* valid, and one whose far edge is one unit beyond it is out of bounds,   *)
(* on either axis.                                                         *)
C7_BoundsExact ==
  ValidateDone /\ call.existingModules = <<>>
               /\ call.moduleType \in getAllModuleTypes
               /\ call.position.x >= 0 /\ call.position.y >= 0 =>
    LET right == call.position.x + moduleTypes[call.moduleType].dimensions.width
        bottom == call.position.y + moduleTypes[call.moduleType].dimensions.height
        W == call.canvasSize.width
        H == call.canvasSize.height
    IN /\ right = W /\ bottom <= H => ret.value = VALID
       /\ right = W + 1 => ret.value = Invalid(ReasonBounds)
       /\ bottom = H /\ right <= W => ret.value = VALID
       /\ bottom = H + 1 => ret.value = Invalid(ReasonBounds)

C7_Witness ==
  /\ ValidateDone /\ call.existingModules = <<>>
  /\ call.moduleType \in getAllModuleTypes
  /\ call.position.x + moduleTypes[call.moduleType].dimensions.width
       = call.canvasSize.width
  /\ call.position.y + moduleTypes[call.moduleType].dimensions.height
       = call.canvasSize.height
  /\ ret.value = VALID

IsRect(r) == HasField(r, "width") /\ HasField(r, "height")

(* an edge of one lies on the opposite edge of the other *)
Touching(a, b) ==
  \/ a.x + a.width = b.x \/ b.x + b.width = a.x
  \/ a.y + a.height = b.y \/ b.y + b.height = a.y

(* some unit cell of the grid lies inside both rectangles *)
ShareArea(a, b) ==
  \E cx \in a.x..(a.x + a.width - 1), cy \in a.y..(a.y + a.height - 1) :
     /\ b.x <= cx /\ cx + 1 <= b.x + b.width
     /\ b.y <= cy /\ cy + 1 <= b.y + b.height

Abuts(c) ==
  /\ Len(c.existingModules) = 1
  /\ AllCatalogTypes(c.existingModules)
  /\ c.moduleType \in getAllModuleTypes
  /\ Contract([c EXCEPT !.existingModules = <<>>]) = VALID
  /\ Touching(CatalogRect([type |-> c.moduleType,
                           x |-> c.position.x, y |-> c.position.y]),
              CatalogRect(c.existingModules[1]))

(* C8: touching is not overlap.  modulesOverlap is false for rectangles    *)
(* that share only an edge and true exactly when they share interior area; *)
(* a candidate inside the bounds that abuts the one existing module is     *)
(* valid.                                                                  *)
C8_TouchingIsNotOverlap ==
  /\ OverlapDone /\ IsRect(call.module1) /\ IsRect(call.module2) =>
       /\ Touching(call.module1, call.module2) => ret.value = FALSE
       /\ ret.value = ShareArea(call.module1, call.module2)
  /\ ValidateDone /\ Abuts(call) => ret.value = VALID

C8_Witness ==
  /\ OverlapDone /\ IsRect(call.module1) /\ IsRect(call.module2)
  /\ call.module1.x + call.module1.width = call.module2.x
  /\ call.module1.y = call.module2.y /\ call.module1.height = call.module2.height
  /\ ret.value = FALSE

(* C9: modulesOverlap(A, B) = modulesOverlap(B, A) for every pair. *)
C9_OverlapSymmetric ==
  OverlapDone => ret.value = modulesOverlap(call.module2, call.module1)

C9_Witness ==
  /\ OverlapDone /\ IsRect(call.module1) /\ IsRect(call.module2)
  /\ call.module2.x + call.module2.width <= call.module1.x
  /\ call.module1.y = call.module2.y
  /\ ret.value = FALSE

Permuted(seq, p) == [i \in 1..Len(seq) |-> seq[p[i]]]

(* C10: the result of validateModulePlacement is the same for every        *)
(* permutation of existingModules, and the call leaves its arguments as    *)
(* they were.                                                              *)
C10_OrderIndependent ==
  ValidateDone =>
    \A p \in Permutations(1..Len(call.existingModules)) :
       validateModulePlacement(call.moduleType, call.position,
                               Permuted(call.existingModules, p),
                               call.canvasSize) = ret.value

----------------------------------------------------------------------------
(* Drag release, recomputation, failed placement, removal, id order *)

(* the module list without the object ref, every other object kept *)
WithoutObject(mods, ref) == SelectSeq(mods, LAMBDA m : m.ref # ref)

(* C11: on drag release the list handed to the validator as existingModules *)
(* is the module list with the dragged module removed and every other      *)
(* module kept.                                                            *)
C11_ReleaseExcludesOnlyDragged ==
  [][ dragState.isDragging /\ HandleMouseUp =>
        FilterOthers(modules, dragState.module.id)
          = WithoutObject(modules, dragState.module.ref) ]_vars

(* an operation on the module list: add, remove, clear or restore *)
ListOperation ==
  \/ \E t \in DropTypes, x \in DropXs, y \in DropYs : HandleCanvasDrop(t, x, y)
  \/ HandleKeyDown("Delete")
  \/ \E id \in 1..MaxId + 1 : RemoveModule(id)
  \/ \E c \in BOOLEAN : ClearHabitat(c)
  \/ \E c \in BOOLEAN : LoadHabitat(c)
  \/ \E r \in BOOLEAN, c \in BOOLEAN : LoadAutoSave(r, c)

(* C12: every operation that changes the module list re-runs the           *)
(* aggregator: when it returns, the snapshot last given to the resource    *)
(* display is the one computed from the current module list, also after a  *)
(* restore that fails part-way.                                            *)
C12_ChangeRecomputes ==
  [][ ListOperation /\ modules' # modules => shown' = Snapshot(modules') ]_vars

(* addModule has run and returned at the unknown-type test or with a       *)
(* validation that is not valid                                            *)
PlacementFailed(op) ==
  /\ op.op = "addModule"
  /\ op.outcome \in {"unknown type", ReasonType, ReasonBounds, ReasonOverlap}

(* C13: a placement that fails validation (unknown type, out of bounds or  *)
(* overlap) does not apply: after addModule returns, the module list,      *)
(* nextModuleId and the selection are what they were before the call.      *)
C13_FailedPlacementNoOp ==
  [][ PlacementFailed(lastOp') =>
        /\ modules' = modules
        /\ nextModuleId' = nextModuleId
        /\ selectedModule' = selectedModule ]_vars

(* a placement onto a placed module was refused while a module is selected *)
C13_Witness ==
  /\ lastOp = [op |-> "addModule", outcome |-> ReasonOverlap]
  /\ Len(modules) > 0
  /\ selectedModule # NULL

(* removeModule(moduleId) has run: by the shell, or by the Delete key with  *)
(* the id of the selected module                                            *)
RemoveStep(moduleId) ==
  \/ RemoveModule(moduleId)
  \/ selectedModule # NULL /\ selectedModule.id = moduleId /\ HandleKeyDown("Delete")

(* C14: removeModule(id) with an id present in the module list removes     *)
(* exactly one module, one with that id, and leaves every other module,    *)
(* their order, their positions and nextModuleId unchanged; with an id not *)
(* present it changes nothing.                                             *)
C14_RemoveFrame ==
  [][ lastOp'.op = "removeModule" =>
        \A id \in 1..MaxId + 1 : RemoveStep(id) =>
          /\ nextModuleId' = nextModuleId
          /\ IF id \in Ids(modules)
             THEN \E i \in 1..Len(modules) :
                     /\ modules[i].id = id
                     /\ modules' = RemoveAt(modules, i)
             ELSE /\ modules' = modules
                  /\ selectedModule' = selectedModule ]_vars

(* the first of two modules was removed and the second is still in place *)
C14_Witness ==
  /\ lastOp = [op |-> "removeModule", outcome |-> "removed"]
  /\ Len(modules) = 1
  /\ modules[1].id \in everHeld
  /\ \E id \in everHeld : id < modules[1].id

(* C15: with only addModule and removeModule applied, the ids given to     *)
(* placed modules are strictly increasing in placement order (the order of *)
(* the list), and every id ever given is below the next one to give, so an *)
(* id freed by a removal is never given again.                             *)
C15_IdsIncrease ==
  /\ \A i, j \in 1..Len(modules) : i < j => modules[i].id < modules[j].id
  /\ \A id \in everHeld : id < nextModuleId

(* module 1 was removed and the module placed after that has id 2 *)
C15_Witness ==
  /\ lastOp = [op |-> "addModule", outcome |-> "added"]
  /\ 1 \in everHeld
  /\ Len(modules) = 1
  /\ modules[1].id = 2

----------------------------------------------------------------------------
(* Restore *)

(* the last handler restored the document doc: its entries were pushed *)
Restored(op, doc) ==
  /\ op.outcome \in {"loaded", "TypeError"}
  /\ HasField(doc, "modules")

RestoredDocument(op) ==
  IF op.op = "loadHabitat" THEN habitatDesign
  ELSE IF op.op = "loadAutoSave" THEN autosave
  ELSE NoDoc

SeededFrom(doc, next) ==
  IF Len(doc.modules) > 0 THEN next = MaxOf(Ids(doc.modules)) + 1 ELSE next = 1

(* C16: after a restore of a document whose module list is non-empty,      *)
(* nextModuleId is the maximum id of the restored list plus 1; after a     *)
(* restore of a document whose module list is empty, nextModuleId is 1.    *)
C16_RestoreSeedsNextId ==
  [][ Restored(lastOp', RestoredDocument(lastOp')) =>
        SeededFrom(RestoredDocument(lastOp'), nextModuleId') ]_vars

(* the last n elements of seq *)
Last(seq, n) == SubSeq(seq, Len(seq) - n + 1, Len(seq))

CatalogOnly(mods) == SelectSeq(mods, LAMBDA m : m.type \in getAllModuleTypes)

SummedFields ==
  {"powerConsumption", "powerGeneration", "oxygenProduction", "oxygenConsumption",
   "crewCapacity", "totalArea"}

HasAlert(alerts, message) == \E i \in 1..Len(alerts) : alerts[i].message = message

(* C17: restoring a document keeps every module entry of the document in   *)
(* the module list in document order, entries whose type is not in the     *)
(* catalog included, and no later entry is lost because of one; such       *)
(* entries add zero to every aggregated field of the snapshot shown and do *)
(* not count as an airlock or a power module in the alerts.                *)
C17_RestoreKeepsEveryEntry ==
  [][ Restored(lastOp', RestoredDocument(lastOp')) =>
        LET entries == RestoredDocument(lastOp').modules
            known == calculateTotalResources(CatalogOnly(modules'))
            alerts == getSafetyAlerts(shown')
        IN /\ Len(modules') >= Len(entries)
           /\ LET kept == Last(modules', Len(entries))
              IN [i \in 1..Len(entries) |-> ToJSON(kept[i])] = entries
           /\ \A f \in SummedFields : shown'[f] = known[f]
           /\ HasAlert(alerts, "No airlock detected")
                <=> ~\E m \in Range(CatalogOnly(modules')) : m.type = "airlock"
           /\ HasAlert(alerts, "No power modules")
                <=> ~\E m \in Range(CatalogOnly(modules')) : m.type = "power" ]_vars

----------------------------------------------------------------------------
(* Resource aggregator *)

(* the catalog field f of a module: zero when the type is not in the       *)
(* catalog or its profile has no such field                                *)
Contribution(m, f) ==
  IF m.type \in getAllModuleTypes /\ f \in DOMAIN moduleTypes[m.type]
  THEN moduleTypes[m.type][f]
  ELSE 0

RECURSIVE Sum(_)
Sum(seq) == IF seq = <<>> THEN 0 ELSE Head(seq) + Sum(Tail(seq))

Contributions(mods, f) == [i \in 1..Len(mods) |-> Contribution(mods[i], f)]

(* the areas of the catalog modules of the list added one after the other  *)
RECURSIVE AreaSum(_)
AreaSum(mods) ==
  IF mods = <<>> THEN DoubleZero
  ELSE LET last == mods[Len(mods)]
           before == AreaSum(SubSeq(mods, 1, Len(mods) - 1))
       IN IF last.type \in getAllModuleTypes
          THEN DoubleAdd(before, moduleTypes[last.type].area)
          ELSE before

(* C18: for every module list, calculateTotalResources returns each of     *)
(* powerConsumption, powerGeneration, oxygenProduction, oxygenConsumption, *)
(* crewCapacity and totalArea equal to the sum of that catalog field over  *)
(* the modules whose type is in the catalog (an unknown type and a missing *)
(* field count zero; the areas are added in list order), with powerBalance *)
(* = powerGeneration - powerConsumption and oxygenBalance =                *)
(* oxygenProduction - oxygenConsumption.                                   *)
C18_AggregateSums ==
  AggregateDone =>
    LET mods == call.modules
        res == ret.value
    IN /\ \A f \in SummedFields \ {"totalArea"} : res[f] = Sum(Contributions(mods, f))
       /\ res.totalArea = AreaSum(mods)
       /\ res.totalArea.t = Sum([i \in 1..Len(mods) |->
                                   IF mods[i].type \in getAllModuleTypes
                                   THEN moduleTypes[mods[i].type].area.t ELSE 0])
       /\ res.powerBalance = res.powerGeneration - res.powerConsumption
       /\ res.oxygenBalance = res.oxygenProduction - res.oxygenConsumption

(* a list with a power module, a module whose profile has no               *)
(* powerGeneration and a module of unknown type                            *)
C18_Witness ==
  /\ AggregateDone
  /\ Len(call.modules) = 3
  /\ \E i, j, k \in 1..3 :
        /\ call.modules[i].type = "power"
        /\ call.modules[j].type = "greenhouse"
        /\ call.modules[k].type = "hydroponics"
  /\ ret.value.powerBalance = 20
  /\ ret.value.totalArea.t = 324

(* the modules of the list at the positions in S, in list order *)
RECURSIVE Sublist(_, _, _)
Sublist(mods, S, i) ==
  IF i > Len(mods) THEN <<>>
  ELSE (IF i \in S THEN <<mods[i]>> ELSE <<>>) \o Sublist(mods, S, i + 1)

(* C19: aggregation is additive.  For every module list and every split of *)
(* it into two disjoint sublists, each summed field and each balance of    *)
(* calculateTotalResources(whole) is the sum of that field of              *)
(* calculateTotalResources of the two sublists.                            *)
C19_Additive ==
  AggregateDone =>
    \A S \in SUBSET (1..Len(call.modules)) :
      LET whole == ret.value
          sub1 == calculateTotalResources(Sublist(call.modules, S, 1))
          sub2 == calculateTotalResources(
                    Sublist(call.modules, (1..Len(call.modules)) \ S, 1))
      IN /\ \A f \in (SummedFields \ {"totalArea"}) \cup {"powerBalance", "oxygenBalance"} :
              whole[f] = sub1[f] + sub2[f]
         /\ whole.totalArea = DoubleAdd(sub1.totalArea, sub2.totalArea)

(* C20: recomputation is idempotent and read-only.  The resource update    *)
(* run by the 5-second timer and on app resume leaves the module list,     *)
(* every module's fields, nextModuleId, the selection and the drag state   *)
(* unchanged, shows the snapshot and alerts of the list it was given, and  *)
(* run again on the unchanged list shows the same snapshot and alerts.     *)
C20_UpdateIdempotent ==
  [][ ( /\ lastOp'.op = "other"
        /\ <<canvasRect, habitatDesign, autosave, autoLoadPending, dragOrigin>>'
             = <<canvasRect, habitatDesign, autosave, autoLoadPending, dragOrigin>>
        /\ PeriodicUpdate ) =>
        /\ modules' = modules
        /\ nextModuleId' = nextModuleId
        /\ selectedModule' = selectedModule
        /\ dragState' = dragState
        /\ shown' = Snapshot(modules)
        /\ updateResources([Designer EXCEPT !.shown = shown']).shown = shown'
        /\ getSafetyAlerts(updateResources([Designer EXCEPT !.shown = shown']).shown)
             = getSafetyAlerts(shown') ]_vars

(* the timer ran after a restore that stopped part-way, during which the   *)
(* display still showed the empty habitat                                  *)
C20_Witness ==
  /\ steps = 2
  /\ lastOp.op = "other"
  /\ \E m \in Range(modules) : ~HasField(m, "dimensions")
  /\ shown = Snapshot(modules)

----------------------------------------------------------------------------
(* Safety alerts *)

Nominal == "All systems nominal"

(* the rule an alert message belongs to, in the order of the rule table *)
RuleOf(message) ==
  CASE message \in {"Power deficit", "Low power reserve"} -> 1
    [] message \in {"Oxygen deficit", "Low oxygen reserve"} -> 2
    [] message \in {"No living quarters", "Limited crew capacity"} -> 3
    [] message = "No airlock detected" -> 4
    [] message = "No power modules" -> 5
    [] OTHER -> 0

Reports(alerts, type, message) ==
  \E i \in 1..Len(alerts) : alerts[i].type = type /\ alerts[i].message = message

HasType(mods, type) == \E i \in 1..Len(mods) : mods[i].type = type

(* the alerts of the rule table are exactly those whose rule applies *)
RulesExact(alerts, resources, mods) ==
  /\ Reports(alerts, "danger", "Power deficit") <=> resources.powerBalance < 0
  /\ Reports(alerts, "warning", "Low power reserve")
       <=> resources.powerBalance >= 0 /\ resources.powerBalance < 10
  /\ Reports(alerts, "danger", "Oxygen deficit") <=> resources.oxygenBalance < 0
  /\ Reports(alerts, "warning", "Low oxygen reserve")
       <=> resources.oxygenBalance >= 0 /\ resources.oxygenBalance < 5
  /\ Reports(alerts, "warning", "No living quarters") <=> resources.crewCapacity = 0
  /\ Reports(alerts, "warning", "Limited crew capacity")
       <=> resources.crewCapacity > 0 /\ resources.crewCapacity < 4
  /\ Reports(alerts, "warning", "No airlock detected") <=> ~HasType(mods, "airlock")
  /\ Reports(alerts, "danger", "No power modules") <=> ~HasType(mods, "power")

(* some rule of the table applies to the snapshot *)
SomeRuleApplies(resources, mods) ==
  \/ resources.powerBalance < 10
  \/ resources.oxygenBalance < 5
  \/ resources.crewCapacity < 4
  \/ ~HasType(mods, "airlock")
  \/ ~HasType(mods, "power")

(* C21: for every snapshot, getSafetyAlerts returns exactly the alerts of  *)
(* the rules that apply, each rule judged on its own and the alerts in the *)
(* order power, oxygen, crew, airlock, power generation: power is danger   *)
(* below 0, else warning below 10; oxygen is danger below 0, else warning  *)
(* below 5; crew is a warning at capacity 0, else a warning below 4; a     *)
(* warning when no airlock is present; danger when no power module is      *)
(* present.  The deficit and the low reserve of one resource never come    *)
(* together.                                                               *)
C21_AlertsByRule ==
  AlertsDone =>
    LET alerts == ret.value
        ruled == SelectSeq(alerts, LAMBDA a : a.message # Nominal)
    IN /\ RulesExact(ruled, call.resources, call.modules)
       /\ \A i \in 1..Len(ruled) : RuleOf(ruled[i].message) # 0
       /\ \A i, j \in 1..Len(ruled) :
             i < j => RuleOf(ruled[i].message) < RuleOf(ruled[j].message)
       /\ \A i \in 1..Len(ruled) :
             /\ ruled[i].message = "Power deficit"
                  => ruled[i].value = Abs(call.resources.powerBalance)
             /\ ruled[i].message = "Oxygen deficit"
                  => ruled[i].value = Abs(call.resources.oxygenBalance)

(* a snapshot with a power deficit, a low oxygen reserve and no airlock *)
C21_Witness ==
  /\ AlertsDone
  /\ call.resources.powerBalance < 0
  /\ call.resources.oxygenBalance \in 0..4
  /\ Len(ret.value) = 4
  /\ ret.value[1].message = "Power deficit"
  /\ ret.value[2].message = "Low oxygen reserve"

(* C22: the alert list is never empty; it holds the nominal entry exactly  *)
(* when no rule of the table applies, and then that entry is the only one. *)
C22_NominalIffQuiet ==
  AlertsDone =>
    LET alerts == ret.value
    IN /\ Len(alerts) > 0
       /\ HasAlert(alerts, Nominal) <=> ~SomeRuleApplies(call.resources, call.modules)
       /\ HasAlert(alerts, Nominal) => Len(alerts) = 1

(* a habitat to which no rule applies *)
C22_Witness ==
  /\ AlertsDone
  /\ ~SomeRuleApplies(call.resources, call.modules)
  /\ HasAlert(ret.value, Nominal)

Severities == {"danger", "warning", "info", "ok"}

(* C23: the severity of every alert is one of danger, warning, info, ok,   *)
(* and the nominal entry has severity info.                                *)
C23_SeverityDomain ==
  AlertsDone =>
    \A i \in 1..Len(ret.value) :
       /\ ret.value[i].type \in Severities
       /\ ret.value[i].message = Nominal => ret.value[i].type = "info"

(* the alerts of the rule table have a severity of the domain *)
C23_RuledSeverities ==
  AlertsDone =>
    \A i \in 1..Len(ret.value) :
       ret.value[i].message # Nominal => ret.value[i].type \in {"danger", "warning"}

(* C24: with no module in the habitat (at the opening of the page, after a *)
(* confirmed clear, after the last module is removed) the alerts shown     *)
(* hold the danger 'no power generation', the warning 'no airlock' and the *)
(* warning 'no living quarters', and not the nominal entry.                *)
C24_EmptyHabitatAlerts ==
  Len(modules) = 0 =>
    LET alerts == getSafetyAlerts(shown)
    IN /\ Reports(alerts, "danger", "No power modules")
       /\ Reports(alerts, "warning", "No airlock detected")
       /\ Reports(alerts, "warning", "No living quarters")
       /\ ~HasAlert(alerts, Nominal)

(* the last module has just been removed, or the habitat has been cleared *)
C24_Witness ==
  /\ Len(modules) = 0
  /\ \/ lastOp = [op |-> "removeModule", outcome |-> "removed"]
     \/ lastOp = [op |-> "clearHabitat", outcome |-> "cleared"]

(* C25: from the empty habitat, placing one living-quarters module and     *)
(* nothing else gives powerBalance = -15; the alerts hold the danger of a  *)
(* power deficit of magnitude 15 and the danger 'no power generation', and *)
(* no warning of a low power reserve.                                      *)
C25_LivingQuartersAlone ==
  (Len(modules) = 1 /\ modules[1].type = "living-quarters") =>
    LET alerts == getSafetyAlerts(shown)
    IN /\ shown.powerBalance = -15
       /\ \E i \in 1..Len(alerts) :
             alerts[i] = AlertOf("danger", "Power deficit", 15)
       /\ Reports(alerts, "danger", "No power modules")
       /\ ~HasAlert(alerts, "Low power reserve")

(* the first drop on the empty canvas placed living quarters *)
C25_Witness ==
  /\ Len(modules) = 1
  /\ modules[1].type = "living-quarters"
  /\ modules[1].id = 1
  /\ lastOp = [op |-> "addModule", outcome |-> "added"]

----------------------------------------------------------------------------
(* Efficiency scores and recommendations *)

Categories == {"power", "oxygen", "space", "crew"}

InPercentRange(score) == FracLeq(Whole(0), score) /\ FracLeq(score, Whole(100))

(* C26: each of the four scores of getEfficiencyScores (power, oxygen,     *)
(* space, crew) lies in [0, 100]; overall is the arithmetic mean of the    *)
(* four; the power score and the oxygen score are 100 when the respective  *)
(* consumption is zero.                                                    *)
C26_ScoresInRange ==
  ScoresDone =>
    LET scores == ret.value
        resources == calculateTotalResources(call.modules)
    IN /\ \A c \in Categories : InPercentRange(scores[c])
       /\ Frac(scores.overall.n * 4, scores.overall.d)
            = FracAdd(FracAdd(scores.power, scores.crew),
                      FracAdd(scores.oxygen, scores.space))
       /\ resources.powerConsumption = 0 => scores.power = Whole(100)
       /\ resources.oxygenConsumption = 0 => scores.oxygen = Whole(100)

(* a list whose power score and crew score lie strictly inside the range   *)
(* and whose overall score is no whole number                              *)
C26_Witness ==
  /\ ScoresDone
  /\ FracLess(Whole(0), ret.value.power)
  /\ FracLess(ret.value.power, Whole(100))
  /\ FracLess(Whole(0), ret.value.crew)
  /\ FracLess(ret.value.crew, Whole(100))
  /\ ret.value.overall.d # 1

Recommends(recommendations, category) ==
  \E i \in 1..Len(recommendations) : recommendations[i].category = category

(* the balance under the category is negative, or the crew capacity is zero *)
Short(resources, category) ==
  \/ category = "power" /\ resources.powerBalance < 0
  \/ category = "oxygen" /\ resources.oxygenBalance < 0
  \/ category = "crew" /\ resources.crewCapacity = 0

(* C27: generateRecommendations holds a recommendation of a category       *)
(* whenever the score of that category is below 70 and none when it is 70  *)
(* or above; the recommendation is critical when the balance under it is   *)
(* negative (power, oxygen) or the crew capacity is zero.                  *)
C27_RecommendBelow70 ==
  ReportDone =>
    LET report == ret.value
    IN \A c \in Categories :
          /\ Recommends(report.recommendations, c)
               <=> FracLess(report.scores[c], Whole(70))
          /\ \A i \in 1..Len(report.recommendations) :
                (report.recommendations[i].category = c /\ Short(report.resources, c))
                   => report.recommendations[i].type = "critical"

(* what the code does: space is recommended below 50, crew below 70 only   *)
(* while the crew capacity is under 4                                      *)
C27_AsCoded ==
  ReportDone =>
    LET report == ret.value
    IN /\ \A c \in {"power", "oxygen"} :
             Recommends(report.recommendations, c)
               <=> FracLess(report.scores[c], Whole(70))
       /\ Recommends(report.recommendations, "space")
            <=> FracLess(report.scores.space, Whole(50))
       /\ Recommends(report.recommendations, "crew")
            <=> (FracLess(report.scores.crew, Whole(70))
                   /\ report.resources.crewCapacity < 4)

(* C28: the list of recommendations is sorted by non-decreasing priority.  *)
C28_SortedByPriority ==
  ReportDone =>
    LET recommendations == ret.value.recommendations
    IN \A i, j \in 1..Len(recommendations) :
          i < j => recommendations[i].priority <= recommendations[j].priority

(* a suggestion was pushed before a critical recommendation *)
C28_Witness ==
  /\ ReportDone
  /\ LET pushed == Pushed(ret.value.resources, ret.value.scores)
     IN \E i, j \in 1..Len(pushed) :
           i < j /\ pushed[i].priority > pushed[j].priority
  /\ Len(ret.value.recommendations) >= 3

----------------------------------------------------------------------------
(* Catalog lookup and placement *)

(* dropped type names the catalog does not hold *)
AbsentTypes == (DropTypes \ {""}) \ getAllModuleTypes

(* addModule(t, x, y) has rejected the type and left the designer alone *)
Rejected(t) ==
  /\ getModuleType(t) = NULL
  /\ lastOp' = [op |-> "addModule", outcome |-> "unknown type"]
  /\ UNCHANGED <<modules, selectedModule, nextModuleId, elements, shown>>

(* C29: getModuleType returns a profile for exactly the type ids that      *)
(* getAllModuleTypes returns and null for every other string, the names of *)
(* built-in object properties included; addModule rejects a type that is   *)
(* absent without a fault and without changing state.                      *)
C29_AbsentTypeRejected ==
  [][ /\ \A t \in getAllModuleTypes : HasField(getModuleType(t), "dimensions")
      /\ \A t \in AbsentTypes, x \in DropXs, y \in DropYs :
            HandleCanvasDrop(t, x, y) => Rejected(t) ]_vars

(* the same for the absent types that name no inherited property *)
C29_RejectedUnlessInherited ==
  [][ \A t \in AbsentTypes \ ObjectPrototypeKeys, x \in DropXs, y \in DropYs :
         HandleCanvasDrop(t, x, y) => Rejected(t) ]_vars

Inside(r, size) ==
  /\ r.x >= 0 /\ r.y >= 0
  /\ r.x + r.width <= size.width
  /\ r.y + r.height <= size.height

(* C30: in every state reached from the empty habitat by addModule and     *)
(* removeModule alone (no drag, no restore, the bounds fixed), no two      *)
(* modules overlap, touching being allowed, and every module lies inside   *)
(* the bounds.                                                             *)
C30_PlacedDisjointInside ==
  /\ \A i, j \in 1..Len(modules) :
        i # j => ~Intersect(CatalogRect(modules[i]), CatalogRect(modules[j]))
  /\ \A i \in 1..Len(modules) : Inside(CatalogRect(modules[i]), canvasRect)

(* two modules placed edge to edge, the second reaching the right bound *)
C30_Witness ==
  /\ Len(modules) = 2
  /\ Touching(CatalogRect(modules[1]), CatalogRect(modules[2]))
  /\ modules[2].x + CatalogRect(modules[2]).width = canvasRect.width

----------------------------------------------------------------------------
(* Load, round trip, drag and selection under interleaving, refresh *)

(* the last handler was a load that reported success *)
LoadSucceeded ==
  lastOp'.op \in {"loadHabitat", "loadAutoSave"} /\ lastOp'.outcome = "loaded"

(* the list as JSON.stringify would write it *)
AsEntries(mods) == [i \in 1..Len(mods) |-> ToJSON(mods[i])]

(* C31: after a loadHabitat or loadAutoSave that reports success, the      *)
(* module list is exactly the module list of the persisted document (same  *)
(* entries, same order, nothing left from before the load), whether the    *)
(* user accepts or declines the clear confirmation raised during the load. *)
C31_LoadedListIsDocument ==
  [][ LoadSucceeded =>
        AsEntries(modules') = RestoredDocument(lastOp').modules ]_vars

(* what the code does: the document's entries replace the list or follow it *)
C31_LoadedReplacesOrAppends ==
  [][ LoadSucceeded =>
        LET entries == RestoredDocument(lastOp').modules
        IN \/ AsEntries(modules') = entries
           \/ /\ Len(modules) > 0
              /\ AsEntries(modules') = AsEntries(modules) \o entries ]_vars

(* the document under habitat-design was written by saveHabitat in this run *)
SavedHere == HasField(habitatDesign, "timestamp") /\ habitatDesign.timestamp = "now"

(* id, type and position of every module or entry, in order *)
Placements(mods) ==
  [i \in 1..Len(mods) |->
     [id |-> mods[i].id, type |-> mods[i].type, x |-> mods[i].x, y |-> mods[i].y]]

(* C32: save/load round trip.  saveHabitat followed, after any sequence of *)
(* add, remove, drag and confirmed clear operations, by loadHabitat with   *)
(* the clear confirmation accepted restores a module list whose ids, types *)
(* and positions, in order, are those of the list at the time of the save. *)
C32_SaveLoadRoundTrip ==
  [][ (SavedHere /\ LoadHabitat(TRUE)) =>
        Placements(modules') = Placements(habitatDesign.modules) ]_vars

(* the round trip of a list whose modules all carry their dimensions *)
C32_RoundTripWithDimensions ==
  [][ (/\ SavedHere
       /\ \A i \in 1..Len(habitatDesign.modules) :
             HasField(habitatDesign.modules[i], "dimensions")
       /\ LoadHabitat(TRUE)) =>
        /\ lastOp'.outcome = "loaded"
        /\ Placements(modules') = Placements(habitatDesign.modules) ]_vars

(* the module object m is one of the objects of the list *)
Listed(m) == \E k \in 1..Len(modules) : modules[k].ref = m.ref

(* C33: while a drag is in progress (dragState.isDragging) the dragged     *)
(* module is a member of the module list, under every interleaving of the  *)
(* mouse events with the Delete key, clearHabitat and loadHabitat; so      *)
(* mousemove and mouseup never move a module that is no longer listed.     *)
C33_DraggedIsListed ==
  dragState.isDragging => Listed(dragState.module)

(* C34: in every reachable state selectedModule is null or a module of the *)
(* module list; removing the selected module, a confirmed clear and a      *)
(* restore never leave the selection at a module that is no longer listed. *)
C34_SelectedIsListed ==
  selectedModule # NULL =>
    \E k \in 1..Len(modules) : modules[k] = selectedModule

(* a module is selected after another one was removed, or after a restore  *)
(* whose clear was declined                                                *)
C34_Witness ==
  /\ selectedModule # NULL
  /\ \/ lastOp = [op |-> "removeModule", outcome |-> "removed"]
     \/ lastOp.op \in {"loadHabitat", "loadAutoSave"} /\ lastOp.outcome = "loaded"

(* the snapshot on display is the one of the current module list *)
Fresh == shown = Snapshot(modules)

(* C35: once the application is initialized, whenever the module list      *)
(* stops changing the snapshot shown by the resource display eventually    *)
(* equals calculateTotalResources of the current list, given that the 5 s  *)
(* refresh timer keeps firing; also after an operation that changed the    *)
(* list without recomputing (a restore that failed part-way).  Checked in  *)
(* the stronger form: every stale display is followed by a fresh one.      *)
C35_DisplayCatchesUp == (~Fresh) ~> Fresh

(* a restore has failed part-way and left the display behind the list *)
C35_Witness ==
  /\ ~Fresh
  /\ lastOp.op \in {"loadHabitat", "loadAutoSave"}
  /\ lastOp.outcome = "TypeError"
  /\ Len(modules) > 0

====
